---- MODULE Spec2Model ----
(***************************************************************************)
(* Corner-region alpha masking of process_icon.make_icon_transparent, and   *)
(* the fetch / menu loop of ui_tools/ui_analyzer.main (last section).      *)
(*                                                                         *)
(* A pixel is <<r, g, b, a>>, a position is <<x, y>>, an image is a        *)
(* function from the positions of a width x height grid to pixels.         *)
(* corner_ratio is the rational ratioNum / RatioDen; RatioDen is a power   *)
(* of two, so the float product width * corner_ratio is exact and          *)
(* int(width * corner_ratio) is the truncated quotient computed here.      *)
(* math.sqrt(n) <= radius is modelled as n <= radius^2 (radius >= 0): the  *)
(* square root of an integer is correctly rounded and radius is an         *)
(* integer, so the two agree for every image size.                         *)
(***************************************************************************)
EXTENDS Integers, Sequences, FiniteSets, TLC

\* ---------------------------------------------------------------- bounds
MaxW == 8
MaxH == 6
MaxRatioNum == 6
RatioDen == 8
MaxAnyW == 4
MaxAnyH == 4
MaxChoices == 3

\* color_tolerance values tried (default 50, the two ends of 0..255)
Tolerances == {0, 50, 255}

\* pixel values an image is drawn from
Palette == << <<255, 255, 255, 255>>,
              <<254, 254, 254, 255>>,
              <<205, 230, 255, 128>>,
              <<255, 255, 204, 255>>,
              <<0, 0, 0, 255>>,
              <<255, 255, 255, 0>> >>

VARIABLES pc, calls, width, height, ratioNum, color_tolerance,
          img, new_img, corner_regions, ri,
          corner_total, corner_transparent, transparent_count,
          tested, zeroed, boxVisits,
          output, caught, propagated, prev,
          cursor, report, ui

vars == <<pc, calls, width, height, ratioNum, color_tolerance,
          img, new_img, corner_regions, ri,
          corner_total, corner_transparent, transparent_count,
          tested, zeroed, boxVisits,
          output, caught, propagated, prev, cursor, report, ui>>

\* ------------------------------------------------------- pure functions
Max(a, b) == IF a >= b THEN a ELSE b
Min(a, b) == IF a <= b THEN a ELSE b

\* int(n / d) of Python: truncation toward zero
IntTrunc(n, d) == IF n >= 0 THEN n \div d ELSE -((-n) \div d)

\* corner_size = int(width * corner_ratio)
CornerSize(w, k) == IntTrunc(w * k, RatioDen)

\* variant: the radius is the whole corner_size
RadiusNoHalf(w, k) == CornerSize(w, k)

\* corner_size // 2 (floor division)
Radius(w, k) == CornerSize(w, k) \div 2

\* variant: the radius derived from the height
CornerRegionsFromH(w, h, k) ==
    LET r == IntTrunc(h * k, RatioDen) \div 2 IN
    << [cx |-> r,     cy |-> r,     radius |-> r, name |-> "top-left"],
       [cx |-> w - r, cy |-> r,     radius |-> r, name |-> "top-right"],
       [cx |-> r,     cy |-> h - r, radius |-> r, name |-> "bottom-left"],
       [cx |-> w - r, cy |-> h - r, radius |-> r, name |-> "bottom-right"] >>

\* the four (center_x, center_y, radius, name) tuples, in list order
CornerRegions(w, h, k) ==
    LET r == Radius(w, k) IN
    << [cx |-> r,     cy |-> r,     radius |-> r, name |-> "top-left"],
       [cx |-> w - r, cy |-> r,     radius |-> r, name |-> "top-right"],
       [cx |-> r,     cy |-> h - r, radius |-> r, name |-> "bottom-left"],
       [cx |-> w - r, cy |-> h - r, radius |-> r, name |-> "bottom-right"] >>

Positions(w, h) == (0 .. w - 1) \X (0 .. h - 1)

\* variant: the box closed on its right and lower side
BBoxInclusive(reg, w, h) ==
    LET x1 == Max(0, reg.cx - reg.radius)
        y1 == Max(0, reg.cy - reg.radius)
        x2 == Min(w, reg.cx + reg.radius + 1)
        y2 == Min(h, reg.cy + reg.radius + 1)
    IN  (x1 .. x2 - 1) \X (y1 .. y2 - 1)

\* range(x1, x2) x range(y1, y2) of the clipped bounding box
BBox(reg, w, h) ==
    LET x1 == Max(0, reg.cx - reg.radius)
        y1 == Max(0, reg.cy - reg.radius)
        x2 == Min(w, reg.cx + reg.radius)
        y2 == Min(h, reg.cy + reg.radius)
    IN  (x1 .. x2 - 1) \X (y1 .. y2 - 1)

DistSq(p, reg) == (p[1] - reg.cx) * (p[1] - reg.cx)
                + (p[2] - reg.cy) * (p[2] - reg.cy)

\* distance <= radius
InCircle(p, reg) == reg.radius >= 0 /\ DistSq(p, reg) <= reg.radius * reg.radius

\* variant: strict comparisons
IsBackgroundStrict(px, t) == px[1] > 255 - t /\ px[2] > 255 - t /\ px[3] > 255 - t

\* variant: one bright channel is enough
IsBackgroundAny(px, t) == px[1] >= 255 - t \/ px[2] >= 255 - t \/ px[3] >= 255 - t

\* r >= 255 - tol and g >= 255 - tol and b >= 255 - tol
IsBackground(px, t) == px[1] >= 255 - t /\ px[2] >= 255 - t /\ px[3] >= 255 - t

\* variant: no distance test, the whole bounding box is masked
MaskPixelNoDistance(px, p, reg, t) ==
    IF IsBackground(px, t) THEN <<px[1], px[2], px[3], 0>> ELSE px

\* variant: alpha graded by the distance to the centre
MaskPixelSoft(px, p, reg, t) ==
    IF InCircle(p, reg) /\ IsBackground(px, t)
    THEN <<px[1], px[2], px[3], DistSq(p, reg)>>
    ELSE px

\* variant: alpha halved instead of cleared
MaskPixelFade(px, p, reg, t) ==
    IF InCircle(p, reg) /\ IsBackground(px, t)
    THEN <<px[1], px[2], px[3], px[4] \div 2>>
    ELSE px

\* the body of the two loops for one (x, y): the pixel's new value
MaskPixel(px, p, reg, t) ==
    IF InCircle(p, reg) /\ IsBackground(px, t)
    THEN <<px[1], px[2], px[3], 0>>
    ELSE px

\* variant: corner_total counted before the distance test
TestedInBox(reg, w, h) == BBox(reg, w, h)

\* pixels of one region counted in corner_total
TestedIn(reg, w, h) == {p \in BBox(reg, w, h) : InCircle(p, reg)}

\* one iteration of the region loop over the whole bounding box
MaskRegion(buf, reg, w, h, t) ==
    [p \in DOMAIN buf |->
        IF p \in BBox(reg, w, h) THEN MaskPixel(buf[p], p, reg, t) ELSE buf[p]]

\* ------------------------------------------------------------- images
PaletteLen == Len(Palette)

Striped(w, h, off) ==
    [p \in Positions(w, h) |-> Palette[((p[1] + 2 * p[2] + off) % PaletteLen) + 1]]

Uniform(w, h, c) == [p \in Positions(w, h) |-> Palette[c]]

Images(w, h) == {Striped(w, h, off) : off \in 0 .. PaletteLen - 1}
                \cup {Uniform(w, h, c) : c \in 1 .. PaletteLen}

\* the value of a name not yet assigned
NoImage == [p \in {} |-> <<0, 0, 0, 0>>]
NoPrev == [tol |-> -1, zeroed |-> {}, input |-> NoImage, result |-> NoImage]
NoCursor == <<0, 0, 0, 0>>
NoCounts == <<0, 0, 0, 0>>

\* a percentage is the exact quotient num / den of the float expression
\* (count / total) * 100, with num = count * 100; den = 0: no figure computed
NoFigure == [num |-> 0, den |-> 0]
NoReport == [corner_percentage |-> <<NoFigure, NoFigure, NoFigure, NoFigure>>,
             total_pixels |-> 0,
             transparency_percentage |-> NoFigure]

\* line 92 / line 95: (count / total) * 100
Percentage(count, total) == [num |-> count * 100, den |-> total]

\* the analyzer is not running
NoUi == [pc |-> "off"]

\* ---------------------------------------------------------- one call
\* Before the call: a decodable RGBA input file and the call's arguments.
Init ==
    /\ pc = "start"
    /\ calls = 1
    /\ width \in 1 .. MaxW
    /\ height \in 1 .. MaxH
    /\ ratioNum \in (0 - 1) .. MaxRatioNum
    /\ color_tolerance \in Tolerances
    /\ img \in Images(width, height)
    /\ new_img = NoImage
    /\ corner_regions = <<>>
    /\ ri = 0
    /\ corner_total = NoCounts
    /\ corner_transparent = NoCounts
    /\ transparent_count = 0
    /\ tested = {}
    /\ zeroed = {}
    /\ boxVisits = [p \in Positions(width, height) |-> 0]
    /\ output = NoImage
    /\ caught = FALSE
    /\ propagated = "none"
    /\ prev = NoPrev
    /\ cursor = NoCursor
    /\ report = NoReport
    /\ ui = NoUi

\* lines 23-56: open, convert, copy, derive the regions, zero the counters
Open ==
    /\ pc = "start"
    /\ new_img' = img
    /\ corner_regions' = CornerRegions(width, height, ratioNum)
    /\ ri' = 1
    /\ transparent_count' = 0
    /\ pc' = "mask"
    /\ UNCHANGED <<calls, width, height, ratioNum, color_tolerance, img,
                   corner_total, corner_transparent, tested, zeroed, boxVisits,
                   output, caught, propagated, prev, cursor, report, ui>>

\* line 23 raises (unreadable file); line 108 catches and reports
OpenFail ==
    /\ pc = "start"
    /\ caught' = TRUE
    /\ pc' = "done"
    /\ UNCHANGED <<calls, width, height, ratioNum, color_tolerance, img, new_img,
                   corner_regions, ri, corner_total, corner_transparent,
                   transparent_count, tested, zeroed, boxVisits,
                   output, propagated, prev, cursor, report, ui>>

\* lines 59-93: one iteration of the loop over corner_regions
ProcessRegion ==
    /\ pc = "mask"
    /\ ri \in 1 .. 4
    /\ LET reg == corner_regions[ri]
           tst == TestedIn(reg, width, height)
           hit == {p \in tst : IsBackground(new_img[p], color_tolerance)}
       IN  /\ new_img' = MaskRegion(new_img, reg, width, height, color_tolerance)
           /\ corner_total' = [corner_total EXCEPT ![ri] = Cardinality(tst)]
           /\ corner_transparent' = [corner_transparent EXCEPT ![ri] = Cardinality(hit)]
           /\ transparent_count' = transparent_count + Cardinality(hit)
           /\ tested' = tested \cup tst
           /\ zeroed' = zeroed \cup hit
           /\ boxVisits' = [p \in DOMAIN boxVisits |->
                  IF p \in BBox(reg, width, height) THEN boxVisits[p] + 1
                                                   ELSE boxVisits[p]]
           /\ report' = IF Cardinality(tst) > 0
                        THEN [report EXCEPT !.corner_percentage[ri] =
                                 Percentage(Cardinality(hit), Cardinality(tst))]
                        ELSE report
    /\ ri' = ri + 1
    /\ pc' = IF ri = 4 THEN "stats" ELSE "mask"
    /\ UNCHANGED <<calls, width, height, ratioNum, color_tolerance, img,
                   corner_regions, output, caught, propagated, prev, cursor, ui>>

\* lines 95-102: the overall figures (width * height > 0, no division error)
Report ==
    /\ pc = "stats"
    /\ width * height > 0
    /\ report' = [report EXCEPT
                      !.total_pixels = width * height,
                      !.transparency_percentage =
                          Percentage(transparent_count, width * height)]
    /\ pc' = "save"
    /\ UNCHANGED <<calls, width, height, ratioNum, color_tolerance, img, new_img,
                   corner_regions, ri, corner_total, corner_transparent,
                   transparent_count, tested, zeroed, boxVisits,
                   output, caught, propagated, prev, cursor, ui>>

\* line 105: new_img.save(output_path, 'PNG') succeeds
Save ==
    /\ pc = "save"
    /\ output' = new_img
    /\ pc' = "done"
    /\ UNCHANGED <<calls, width, height, ratioNum, color_tolerance, img, new_img,
                   corner_regions, ri, corner_total, corner_transparent,
                   transparent_count, tested, zeroed, boxVisits,
                   caught, propagated, prev, cursor, report, ui>>

\* line 105 raises; line 108 catches and reports.  The path is left as it
\* was (it could not be opened) or holds no decodable image any more (the
\* file was truncated, or created and removed).
SaveFail ==
    /\ pc = "save"
    /\ caught' = TRUE
    /\ output' \in {output, NoImage}
    /\ pc' = "done"
    /\ UNCHANGED <<calls, width, height, ratioNum, color_tolerance, img, new_img,
                   corner_regions, ri, corner_total, corner_transparent,
                   transparent_count, tested, zeroed, boxVisits,
                   propagated, prev, cursor, report, ui>>

\* variant: the buffer is written out on the way out of a failed loop
MaskFailSavesPartial ==
    /\ pc = "mask"
    /\ caught' = TRUE
    /\ output' = new_img
    /\ pc' = "done"
    /\ UNCHANGED <<calls, width, height, ratioNum, color_tolerance, img, new_img,
                   corner_regions, ri, corner_total, corner_transparent,
                   transparent_count, tested, zeroed, boxVisits,
                   propagated, prev, cursor, report, ui>>

\* a statement of lines 59-93 raises (an argument of a type the comparison
\* of line 83 rejects, an interrupted pixel access) before region ri is
\* finished; line 108 catches and reports
MaskFail ==
    /\ pc = "mask"
    /\ caught' = TRUE
    /\ pc' = "done"
    /\ UNCHANGED <<calls, width, height, ratioNum, color_tolerance, img, new_img,
                   corner_regions, ri, corner_total, corner_transparent,
                   transparent_count, tested, zeroed, boxVisits,
                   output, propagated, prev, cursor, report, ui>>

\* A following call of make_icon_transparent: on the file the first call
\* wrote, with the same arguments ...
CallOnOutput ==
    /\ pc = "done" /\ calls = 1 /\ ~caught
    /\ prev' = [tol |-> color_tolerance, zeroed |-> zeroed,
                input |-> img, result |-> new_img]
    /\ img' = output
    /\ UNCHANGED color_tolerance

\* ... or on the same input with another color_tolerance.
CallOtherTolerance ==
    /\ pc = "done" /\ calls = 1 /\ ~caught
    /\ prev' = [tol |-> color_tolerance, zeroed |-> zeroed,
                input |-> img, result |-> new_img]
    /\ color_tolerance' \in Tolerances \ {color_tolerance}
    /\ UNCHANGED img

CallAgain ==
    /\ (CallOnOutput \/ CallOtherTolerance)
    /\ calls' = 2
    /\ pc' = "start"
    /\ new_img' = NoImage
    /\ corner_regions' = <<>>
    /\ ri' = 0
    /\ corner_total' = NoCounts
    /\ corner_transparent' = NoCounts
    /\ transparent_count' = 0
    /\ tested' = {}
    /\ zeroed' = {}
    /\ boxVisits' = [p \in DOMAIN boxVisits |-> 0]
    /\ report' = NoReport
    /\ UNCHANGED <<width, height, ratioNum, output, caught, propagated, cursor, ui>>

Next == Open \/ OpenFail \/ ProcessRegion \/ MaskFail \/ Report \/ Save \/ SaveFail
           \/ CallAgain

Spec == Init /\ [][Next]_vars

\* ------------------------------------------- the regions in any order
\* The same per-pixel loop body, one worker per region, each walking its
\* bounding box in the loops' row-major order, the workers interleaved
\* arbitrarily over the one shared buffer.
InitAnyOrder ==
    /\ pc = "start"
    /\ calls = 1
    /\ width \in 1 .. MaxAnyW
    /\ height \in 1 .. MaxAnyH
    /\ ratioNum \in 1 .. MaxRatioNum
    /\ color_tolerance \in Tolerances
    /\ img \in Images(width, height)
    /\ new_img = NoImage
    /\ corner_regions = <<>>
    /\ ri = 0
    /\ corner_total = NoCounts
    /\ corner_transparent = NoCounts
    /\ transparent_count = 0
    /\ tested = {}
    /\ zeroed = {}
    /\ boxVisits = [p \in Positions(width, height) |-> 0]
    /\ output = NoImage
    /\ caught = FALSE
    /\ propagated = "none"
    /\ prev = NoPrev
    /\ cursor = NoCursor
    /\ report = NoReport
    /\ ui = NoUi

\* lines 23-56, then the four sub-passes are started
Fork ==
    /\ pc = "start"
    /\ new_img' = img
    /\ corner_regions' = CornerRegions(width, height, ratioNum)
    /\ pc' = "workers"
    /\ UNCHANGED <<calls, width, height, ratioNum, color_tolerance, img, ri,
                   corner_total, corner_transparent, transparent_count,
                   tested, zeroed, boxVisits, output, caught, propagated,
                   prev, cursor, report, ui>>

\* lines 66-69: the clipped box as (x1, y1, columns, rows)
BoxDims(reg, w, h) ==
    LET x1 == Max(0, reg.cx - reg.radius)
        y1 == Max(0, reg.cy - reg.radius)
        x2 == Min(w, reg.cx + reg.radius)
        y2 == Min(h, reg.cy + reg.radius)
    IN  [x1 |-> x1, y1 |-> y1, cols |-> Max(0, x2 - x1), rows |-> Max(0, y2 - y1)]

\* lines 71-72: the n-th (from 0) position of for y ...: for x ...:
BoxAt(reg, w, h, n) ==
    LET d == BoxDims(reg, w, h) IN <<d.x1 + (n % d.cols), d.y1 + (n \div d.cols)>>

BoxCount(reg, w, h) == LET d == BoxDims(reg, w, h) IN d.cols * d.rows

\* lines 73-89 for the next (x, y) of region i
StepPixel(i) ==
    /\ pc = "workers"
    /\ cursor[i] < BoxCount(corner_regions[i], width, height)
    /\ LET reg == corner_regions[i]
           p == BoxAt(reg, width, height, cursor[i])
       IN  new_img' = [new_img EXCEPT ![p] = MaskPixel(new_img[p], p, reg, color_tolerance)]
    /\ cursor' = [cursor EXCEPT ![i] = cursor[i] + 1]
    /\ UNCHANGED <<pc, calls, width, height, ratioNum, color_tolerance, img,
                   corner_regions, ri, corner_total, corner_transparent,
                   transparent_count, tested, zeroed, boxVisits, output,
                   caught, propagated, prev, report, ui>>

NextAnyOrder == Fork \/ \E i \in 1 .. 4 : StepPixel(i)

SpecAnyOrder == InitAnyOrder /\ [][NextAnyOrder]_vars

\* lines 59-89 run in the list order: the buffer after the four regions
MaskPass(buf, w, h, k, t) ==
    LET regs == CornerRegions(w, h, k)
        b1 == MaskRegion(buf, regs[1], w, h, t)
        b2 == MaskRegion(b1, regs[2], w, h, t)
        b3 == MaskRegion(b2, regs[3], w, h, t)
    IN  MaskRegion(b3, regs[4], w, h, t)

\* ============================================================ properties
\* corner_ratio in (0, 0.5]
ValidRatio == ratioNum > 0 /\ 2 * ratioNum <= RatioDen

\* the four regions have been processed
PassDone == ri = 5

Sq(n) == n * n

\* Euclidean distance of p to (cx, cy), compared with the radius
DistCmp(p, reg) == Sq(p[1] - reg.cx) + Sq(p[2] - reg.cy) - Sq(reg.radius)

\* p lies in the clipped bounding box and in the closed circle of a region
Visited(p) ==
    \E i \in 1 .. 4 :
        LET reg == corner_regions[i] IN
        /\ reg.radius >= 0
        /\ p[1] >= reg.cx - reg.radius /\ p[1] < reg.cx + reg.radius
        /\ p[2] >= reg.cy - reg.radius /\ p[2] < reg.cy + reg.radius
        /\ DistCmp(p, reg) <= 0

White(px, t) == px[1] >= 255 - t /\ px[2] >= 255 - t /\ px[3] >= 255 - t

\* C1: with a valid corner_ratio, at every point of the pass each pixel
\* whose distance to all four centres is strictly greater than the radius
\* has the value it had in the input.
C1_RegionContainment ==
    (ri >= 1 /\ ValidRatio) =>
        \A p \in Positions(width, height) :
            (\A i \in 1 .. 4 : DistCmp(p, corner_regions[i]) > 0)
                => new_img[p] = img[p]

C1_Witness ==
    /\ PassDone /\ ValidRatio /\ new_img # img
    /\ \E p \in Positions(width, height) :
          /\ \A i \in 1 .. 4 : DistCmp(p, corner_regions[i]) > 0
          /\ White(img[p], color_tolerance) /\ img[p][4] = 255
          /\ new_img[p] = img[p]

\* C2: after the pass a visited pixel has alpha 0 and its r, g, b kept when
\* all three channels are >= 255 - tolerance, whatever its alpha was, and is
\* untouched otherwise; in-region opaque white becomes (255,255,255,0), and
\* in-region opaque black stays for every tolerance < 255.
C2_MaskRule ==
    PassDone =>
        \A p \in Positions(width, height) :
            Visited(p) =>
                /\ new_img[p] = IF White(img[p], color_tolerance)
                                THEN <<img[p][1], img[p][2], img[p][3], 0>>
                                ELSE img[p]
                /\ img[p] = <<255, 255, 255, 255>> => new_img[p] = <<255, 255, 255, 0>>
                /\ (img[p] = <<0, 0, 0, 255>> /\ color_tolerance < 255)
                        => new_img[p] = <<0, 0, 0, 255>>

C2_Witness ==
    /\ PassDone
    /\ \E p, q, s \in Positions(width, height) :
          /\ Visited(p) /\ img[p] = <<255, 255, 255, 255>> /\ new_img[p][4] = 0
          /\ Visited(q) /\ img[q] = <<0, 0, 0, 255>> /\ new_img[q] = img[q]
          /\ Visited(s) /\ img[s][4] = 128 /\ new_img[s][4] = 0

\* C3: after the pass, every background-coloured pixel of the image whose
\* distance to a region's centre equals the radius has alpha 0.
C3_BoundaryInclusion ==
    (PassDone /\ ValidRatio /\ corner_regions[1].radius >= 1) =>
        \A i \in 1 .. 4 : \A p \in Positions(width, height) :
            (DistCmp(p, corner_regions[i]) = 0 /\ White(img[p], color_tolerance))
                => new_img[p][4] = 0

\* the configurations the spec calls invalid
InvalidConfiguration ==
    ~ValidRatio \/ (ri >= 1 /\ corner_regions[1].radius = 0)

CornerPixels == {<<0, 0>>, <<width - 1, 0>>, <<0, height - 1>>, <<width - 1, height - 1>>}

\* C5: after a pass with a valid ratio and radius >= 1 over an image whose
\* four extreme corner pixels are background-coloured, those four pixels
\* have alpha 0.
C5_TransparentCorners ==
    (/\ PassDone /\ ValidRatio /\ corner_regions[1].radius >= 1
     /\ \A c \in CornerPixels : White(img[c], color_tolerance))
        => \A c \in CornerPixels : new_img[c][4] = 0

BoxOf(i) == BBox(corner_regions[i], width, height)

BoxesDisjoint ==
    /\ \A i, j \in 1 .. 4 : i # j => BoxOf(i) \cap BoxOf(j) = {}
    /\ \A p \in Positions(width, height) : boxVisits[p] <= 1

\* C6 as stated: with a valid ratio the four clipped bounding boxes are
\* pairwise disjoint and no pixel is visited by two sub-passes.
C6_Disjoint ==
    (ri >= 1 /\ ValidRatio) => BoxesDisjoint

\* C6 amended: with a valid ratio and height >= 4 * radius (every square
\* image, every image at least as high as wide) the four clipped bounding
\* boxes are pairwise disjoint and no pixel is visited by two sub-passes.
C6_DisjointTall ==
    (ri >= 1 /\ ValidRatio /\ height >= 4 * corner_regions[1].radius)
        => BoxesDisjoint

C6_Witness ==
    /\ PassDone /\ ValidRatio /\ corner_regions[1].radius >= 1
    /\ height >= 4 * corner_regions[1].radius
    /\ \A i \in 1 .. 4 : \E p \in BoxOf(i) : boxVisits[p] = 1

WorkersDone ==
    /\ pc = "workers"
    /\ \A i \in 1 .. 4 : cursor[i] = BoxCount(corner_regions[i], width, height)

\* C7: whatever the interleaving of the four regions' per-pixel steps, the
\* final buffer is the one the list order (top-left, top-right, bottom-left,
\* bottom-right) produces, also when the regions overlap.
C7_OrderIndependent ==
    WorkersDone =>
        new_img = MaskPass(img, width, height, ratioNum, color_tolerance)

C7_Witness ==
    /\ WorkersDone /\ new_img # img
    /\ \E p \in Positions(width, height) :
          /\ p \in BoxOf(1) \cap BoxOf(2)
          /\ DistCmp(p, corner_regions[1]) <= 0
          /\ DistCmp(p, corner_regions[2]) <= 0
          /\ new_img[p] # img[p]

\* the second call runs on what the first call wrote, same arguments
SecondOnOutput ==
    calls = 2 /\ img = prev.result /\ color_tolerance = prev.tol

\* C8: a pass over the result of a pass with the same corner_ratio and
\* color_tolerance leaves the buffer equal to that result.
C8_Idempotent ==
    (SecondOnOutput /\ PassDone) => new_img = prev.result

C8_Witness ==
    /\ SecondOnOutput /\ pc = "done" /\ ~caught
    /\ prev.result # prev.input /\ tested # {}
    /\ new_img = prev.result

SecondOnInput == calls = 2 /\ img = prev.input

\* C9: for the same image and corner_ratio the pixels set transparent with
\* a smaller tolerance are among those set transparent with a larger one;
\* with tolerance 0 only r = g = b = 255 pixels are written (an image of
\* (254,254,254) pixels is unchanged) and with tolerance 255 every tested
\* pixel is written.
C9_ToleranceMonotone ==
    PassDone =>
        /\ (SecondOnInput /\ prev.tol < color_tolerance) => prev.zeroed \subseteq zeroed
        /\ (SecondOnInput /\ color_tolerance < prev.tol) => zeroed \subseteq prev.zeroed
        /\ color_tolerance = 0 =>
              /\ \A p \in zeroed : img[p][1] = 255 /\ img[p][2] = 255 /\ img[p][3] = 255
              /\ \A p \in Positions(width, height) :
                    new_img[p] # img[p] => p \in zeroed
              /\ (\A p \in Positions(width, height) : img[p] = <<254, 254, 254, 255>>)
                    => new_img = img
        /\ color_tolerance = 255 =>
              /\ zeroed = tested
              /\ \A p \in tested : new_img[p][4] = 0

C9_Witness ==
    /\ PassDone /\ SecondOnInput /\ prev.tol < color_tolerance
    /\ prev.zeroed # {} /\ prev.zeroed # zeroed /\ prev.zeroed \subseteq zeroed

\* C10: with a valid ratio exactly four regions are derived, all of radius
\* floor(W * corner_ratio / 2), centred at (radius, radius),
\* (W - radius, radius), (radius, H - radius), (W - radius, H - radius).
C10_Regions ==
    (ri >= 1 /\ ValidRatio) =>
        LET r == (width * ratioNum) \div (2 * RatioDen) IN
        /\ Len(corner_regions) = 4
        /\ \A i \in 1 .. 4 : corner_regions[i].radius = r
        /\ <<corner_regions[1].cx, corner_regions[1].cy>> = <<r, r>>
        /\ <<corner_regions[2].cx, corner_regions[2].cy>> = <<width - r, r>>
        /\ <<corner_regions[3].cx, corner_regions[3].cy>> = <<r, height - r>>
        /\ <<corner_regions[4].cx, corner_regions[4].cy>> = <<width - r, height - r>>
        /\ corner_regions[1].name = "top-left" /\ corner_regions[2].name = "top-right"
        /\ corner_regions[3].name = "bottom-left"
        /\ corner_regions[4].name = "bottom-right"

C10_Witness ==
    /\ PassDone /\ ValidRatio /\ width # height
    /\ corner_regions[1].radius >= 1
    /\ (width * ratioNum) % RatioDen # 0
    /\ ((width * ratioNum) \div RatioDen) % 2 = 1

\* the in-image pixels of region i: in its clipped box, distance <= radius
RegionPixels(i) ==
    LET reg == corner_regions[i] IN
    {p \in Positions(width, height) :
        /\ reg.radius >= 0
        /\ p[1] >= reg.cx - reg.radius /\ p[1] < reg.cx + reg.radius
        /\ p[2] >= reg.cy - reg.radius /\ p[2] < reg.cy + reg.radius
        /\ DistCmp(p, reg) <= 0}

Reported == ri = 5 /\ pc \in {"save", "done"} /\ report.transparency_percentage.den > 0

SumOf(c) == c[1] + c[2] + c[3] + c[4]

\* the counts of C11: per region tested and transparent, the total the sum
CountsRight ==
    /\ \A i \in 1 .. 4 :
          /\ corner_total[i] = Cardinality(RegionPixels(i))
          /\ corner_transparent[i] =
                Cardinality({p \in RegionPixels(i) : White(img[p], color_tolerance)})
          /\ corner_transparent[i] <= corner_total[i]
    /\ transparent_count = SumOf(corner_transparent)

\* a reported per-region figure f is transparent / tested * 100
RegionFiguresRight ==
    \A i \in 1 .. 4 :
        LET f == report.corner_percentage[i] IN
        /\ f.den > 0 <=> corner_total[i] > 0
        /\ f.den > 0 => f.num * corner_total[i] = corner_transparent[i] * 100 * f.den

\* C11 as stated: per region tested and transparent counts, totals as sums,
\* and every reported percentage, per region and in total, equal to
\* transparent / tested * 100 over the corresponding tested count.
C11_Statistics ==
    Reported =>
        /\ CountsRight
        /\ RegionFiguresRight
        /\ LET f == report.transparency_percentage IN
              f.num * SumOf(corner_total) = transparent_count * 100 * f.den

\* C11 amended: the counts and the per-region percentages (one per region
\* with tested > 0) are as stated, while the in-total percentage is
\* transparent_count / (W * H) * 100, over all pixels of the image.
C11_StatisticsOverImage ==
    Reported =>
        /\ CountsRight
        /\ RegionFiguresRight
        /\ report.total_pixels = width * height
        /\ LET f == report.transparency_percentage IN
              f.num * (width * height) = transparent_count * 100 * f.den

C11_Witness ==
    /\ Reported /\ pc = "done" /\ ~caught /\ ValidRatio
    /\ \E i \in 1 .. 4 : 0 < corner_transparent[i] /\ corner_transparent[i] < corner_total[i]
    /\ 0 < SumOf(corner_total) /\ SumOf(corner_total) < width * height

\* the four edge midpoints and the centre pixel
MidPoints ==
    {<<width \div 2, 0>>, <<width \div 2, height - 1>>,
     <<0, height \div 2>>, <<width - 1, height \div 2>>,
     <<width \div 2, height \div 2>>}

MidPointsKept ==
    \A p \in MidPoints :
        /\ \A i \in 1 .. 4 : p \notin RegionPixels(i)
        /\ new_img[p] = img[p]

\* floor(W * corner_ratio / 2)
ClaimRadius == (width * ratioNum) \div (2 * RatioDen)

OutputAtStart == IF calls = 1 THEN NoImage ELSE prev.result

\* the call failed in the open, the conversion or the masking
FailedBeforeSave == caught /\ ri < 5

Node(d, t, cd, c, ck) ==
    [depth |-> d, text |-> t, desc |-> cd, class |-> c, clickable |-> ck]

Screens ==
    << << Node(0, "", "", "FrameLayout", FALSE),
          Node(1, "login", "", "TextView", FALSE),
          Node(1, "", "", "EditText", FALSE),
          Node(1, "ok", "", "Button", TRUE) >>,
       << Node(0, "", "", "FrameLayout", FALSE),
          Node(1, "", "menu", "ImageView", TRUE),
          Node(1, "", "", "View", FALSE) >>,
       << Node(0, "", "", "FrameLayout", FALSE),
          Node(1, "ok", "", "TextView", FALSE),
          Node(2, "", "", "InputField", FALSE) >> >>

NumScreens == Len(Screens)

SearchTexts == {"", "ok", "menu"}

Contains(needle, hay) == needle = "" \/ needle = hay

\* lines 47-85: the useful nodes of the dump, in traversal order
parse_ui_elements(xml) ==
    LET Useful(n) == n.text # "" \/ n.desc # "" \/ n.clickable
                     \/ Contains("EditText", n.class)
    IN  SelectSeq(xml, Useful)

\* lines 87-94
find_elements_by_text(elements, search_text) ==
    LET Hit(e) == Contains(search_text, e.text) \/ Contains(search_text, e.desc)
    IN  SelectSeq(elements, Hit)

\* lines 24-45: the states get_ui_dump can leave behind.  file and sdcard
\* hold the number of the screen whose dump they contain (0: no file);
\* xml_file is the content of the file whose name is returned (0: None).
get_ui_dump(u) ==
    IF u.file # 0
    THEN { [u EXCEPT !.fetch = "cached", !.xml_file = u.file, !.dumped = 0] }
    ELSE { [u EXCEPT !.fetch = "dump_failed", !.xml_file = 0, !.dumped = 0],
           [u EXCEPT !.fetch = "pull_failed", !.xml_file = 0, !.sdcard = u.device,
                     !.dumped = u.device],
           [u EXCEPT !.fetch = "pulled", !.sdcard = u.device, !.file = u.device,
                     !.xml_file = u.device, !.dumped = u.device] }

IconVars == <<pc, calls, width, height, ratioNum, color_tolerance,
              img, new_img, corner_regions, ri,
              corner_total, corner_transparent, transparent_count,
              tested, zeroed, boxVisits,
              output, caught, propagated, prev, cursor, report>>

\* The analyzer is started; window_dump.xml may be left over from an
\* earlier session.
InitAnalyzer ==
    /\ pc = "off" /\ calls = 0 /\ width = 1 /\ height = 1 /\ ratioNum = 0
    /\ color_tolerance = 0
    /\ img = NoImage /\ new_img = NoImage /\ corner_regions = <<>> /\ ri = 0
    /\ corner_total = NoCounts /\ corner_transparent = NoCounts
    /\ transparent_count = 0 /\ tested = {} /\ zeroed = {}
    /\ boxVisits = NoImage
    /\ output = NoImage /\ caught = FALSE /\ propagated = "none"
    /\ prev = NoPrev /\ cursor = NoCursor /\ report = NoReport
    /\ \E dev \in 1 .. NumScreens, f \in 0 .. NumScreens :
          ui = [pc |-> "start", device |-> dev, sdcard |-> 0, file |-> f,
                xml_file |-> 0, dumped |-> 0, fetch |-> "none",
                elements |-> <<>>, shown |-> <<>>, choices |-> 0, last |-> -1]

\* lines 110-126: fetch, leave when there is no dump, parse
MainStart ==
    /\ ui.pc = "start"
    /\ \E u \in get_ui_dump(ui) :
          ui' = IF u.xml_file = 0
                THEN [u EXCEPT !.pc = "exit"]
                ELSE [u EXCEPT !.pc = "menu",
                               !.elements = parse_ui_elements(Screens[u.xml_file])]
    /\ UNCHANGED IconVars

\* lines 140-141
Quit ==
    /\ ui.pc = "menu" /\ ui.choices < MaxChoices
    /\ ui' = [ui EXCEPT !.pc = "exit", !.choices = ui.choices + 1, !.last = 0]
    /\ UNCHANGED IconVars

\* lines 142-161: choices 1 to 4 print a selection of the element list
Show ==
    /\ ui.pc = "menu" /\ ui.choices < MaxChoices
    /\ \E choice \in 1 .. 4, search_text \in SearchTexts :
          LET Clickable(e) == e.clickable
              Input(e) == Contains("EditText", e.class) \/ Contains("Input", e.class)
              sel == CASE choice = 1 -> ui.elements
                       [] choice = 2 -> find_elements_by_text(ui.elements, search_text)
                       [] choice = 3 -> SelectSeq(ui.elements, Clickable)
                       [] choice = 4 -> SelectSeq(ui.elements, Input)
          IN  ui' = [ui EXCEPT !.shown = sel, !.choices = ui.choices + 1,
                               !.last = choice]
    /\ UNCHANGED IconVars

\* lines 162-166: choice 5
Refetch ==
    /\ ui.pc = "menu" /\ ui.choices < MaxChoices
    /\ \E u \in get_ui_dump(ui) :
          ui' = [u EXCEPT !.choices = ui.choices + 1, !.last = 5,
                          !.elements = IF u.xml_file # 0
                                       THEN parse_ui_elements(Screens[u.xml_file])
                                       ELSE ui.elements]
    /\ UNCHANGED IconVars

\* the app on the device moves to another screen
ScreenChange ==
    /\ ui.pc \in {"start", "menu"}
    /\ \E dev \in (1 .. NumScreens) \ {ui.device} : ui' = [ui EXCEPT !.device = dev]
    /\ UNCHANGED IconVars

\* the user deletes the local window_dump.xml
RemoveFile ==
    /\ ui.pc = "menu" /\ ui.file # 0
    /\ ui' = [ui EXCEPT !.file = 0]
    /\ UNCHANGED IconVars

NextAnalyzer == MainStart \/ Quit \/ Show \/ Refetch \/ ScreenChange \/ RemoveFile

SpecAnalyzer == InitAnalyzer /\ [][NextAnalyzer]_vars

\* C13: after menu option 5, get_ui_dump has run the uiautomator dump (and
\* the pull when the dump succeeded), and when both succeeded the element
\* list is the one parsed from the screen the device showed at that dump.
C13_RefetchIsFresh ==
    (ui.pc = "menu" /\ ui.last = 5) =>
        /\ ui.fetch \in {"dump_failed", "pull_failed", "pulled"}
        /\ ui.fetch = "pulled" =>
              ui.elements = parse_ui_elements(Screens[ui.dumped])
====
